---- MODULE Spec2Model ----
(***************************************************************************)
(* A model of codebase_chunker.py: the fixed-size slicer (chunk_text), the *)
(* greedy chunk aggregator (aggregate_chunks), the exclusion predicates,   *)
(* the tree renderer and main's pipeline.                                  *)
(*                                                                         *)
(* A Python str is a tuple of one-character strings, so that len, slicing, *)
(* concatenation, split, basename, splitext and lower are computed on the  *)
(* characters as the code computes them.  The box-drawing characters of    *)
(* the tree view are written with one ASCII character each ("^" for the    *)
(* corner, "+" for the tee, "-" for the horizontal bar, "|" for the        *)
(* vertical bar): the lengths are those of the Python strings.             *)
(***************************************************************************)
EXTENDS Integers, Sequences, FiniteSets, TLC

VARIABLES
    \* the harness around the two pure functions
    hpc,            \* "idle" | "call" | "returned": position of the harness
    text,           \* chunk_text's argument text
    chunk_size,     \* chunk_text's argument chunk_size
    sub_chunks,     \* chunk_text's return value
    subchunks,      \* aggregate_chunks' argument
    budget,         \* context_length_for_chunks as aggregate_chunks reads it
    grouped,        \* aggregate_chunks' return value (with the fragments of each group)
    \* main
    pc,             \* "start" | "mkdir" | "tree" | "walk" | "write" | "done" | "exited"
    argv_len,       \* len(sys.argv)
    cwd,            \* the process's working directory
    codebase_root,  \* sys.argv[1]
    root_segments,  \* the path segments of sys.argv[1] as the caller typed them
    fs,             \* the directory tree below the codebase root
    context_length_for_chunks,
    out_exists,     \* os.path.exists(output_dir)
    out_created,    \* os.makedirs(output_dir) was called
    stdout,         \* what was printed
    exit_code,
    tree_lines,     \* the lines of the tree view, each with the entry it shows
    tree_subchunks,
    walk_stack,     \* the directories os.walk has still to yield
    files_read,     \* the files get_file_chunks has opened, in order
    all_file_chunks,
    chunk_files,    \* for each element of all_file_chunks, the file it was cut from
    final_chunks,
    written         \* the files written into output_dir, in order

hvars == <<hpc, text, chunk_size, sub_chunks, subchunks, budget, grouped>>

mvars == <<pc, argv_len, cwd, codebase_root, root_segments, fs,
           context_length_for_chunks, out_exists, out_created, stdout, exit_code,
           tree_lines, tree_subchunks, walk_stack, files_read, all_file_chunks,
           chunk_files, final_chunks, written>>

vars == <<hvars, mvars>>

\* ------------------------------------------------------------------ bounds

MaxTextLen == 5
MaxB == 8
MaxFrags == 4
MaxFragLen == 4
MaxArgc == 3
MidBudget == 40
MaxContent == 80

\* context_length_for_chunks = 8000
DefaultContextLength == 8000

\* ----------------------------------------------------------- Python strings

Min(a, b) == IF a <= b THEN a ELSE b

\* text[i:j] for 0 <= i <= j
Slice(s, i, j) == SubSeq(s, i + 1, Min(j, Len(s)))

\* range(start, stop, step) as a list, step >= 1
RECURSIVE range(_, _, _)
range(start, stop, step) ==
    IF start >= stop THEN <<>> ELSE <<start>> \o range(start + step, stop, step)

\* "\n\n", the separator aggregate_chunks puts between two sub-chunks
Sep == <<"\n", "\n">>

\* ------------------------------------------------------------ str methods

\* s.find(c) and s.rfind(c) for a character c: a 0-based index, or -1
RECURSIVE rfind(_, _)
rfind(s, c) ==
    IF s = <<>> THEN -1
    ELSE IF s[Len(s)] = c THEN Len(s) - 1
    ELSE rfind(SubSeq(s, 1, Len(s) - 1), c)

find(s, c) ==
    IF \E i \in 1..Len(s) : s[i] = c
    THEN (CHOOSE i \in 1..Len(s) : s[i] = c /\ \A j \in 1..(i - 1) : s[j] # c) - 1
    ELSE -1

\* s.split(c): the parts between the occurrences of c, empty parts kept
RECURSIVE split(_, _)
split(s, c) ==
    LET i == find(s, c)
    IN  IF i = -1 THEN <<s>>
        ELSE <<Slice(s, 0, i)>> \o split(Slice(s, i + 1, Len(s)), c)

\* s.rstrip(c)
RECURSIVE rstrip(_, _)
rstrip(s, c) ==
    IF s # <<>> /\ s[Len(s)] = c THEN rstrip(SubSeq(s, 1, Len(s) - 1), c) ELSE s

\* sep.join(parts)
RECURSIVE str_join(_, _)
str_join(sep, parts) ==
    IF parts = <<>> THEN <<>>
    ELSE IF Len(parts) = 1 THEN parts[1]
    ELSE parts[1] \o sep \o str_join(sep, Tail(parts))

UpperCase == <<"A", "B", "C", "D", "E", "F", "G", "H", "I", "J", "K", "L", "M", "N", "O", "P", "Q", "R", "S", "T", "U", "V", "W", "X", "Y", "Z">>
LowerCase == <<"a", "b", "c", "d", "e", "f", "g", "h", "i", "j", "k", "l", "m", "n", "o", "p", "q", "r", "s", "t", "u", "v", "w", "x", "y", "z">>

\* s.lower()
lower(s) ==
    [i \in 1..Len(s) |->
        IF \E k \in 1..Len(UpperCase) : UpperCase[k] = s[i]
        THEN LowerCase[CHOOSE k \in 1..Len(UpperCase) : UpperCase[k] = s[i]]
        ELSE s[i]]

\* x in list
InList(x, list) == \E k \in 1..Len(list) : list[k] = x

\* str(n) for n >= 0
DigitChars == <<"0", "1", "2", "3", "4", "5", "6", "7", "8", "9">>
RECURSIVE str(_)
str(n) ==
    IF n < 10 THEN <<DigitChars[n + 1]>>
    ELSE str(n \div 10) \o <<DigitChars[(n % 10) + 1]>>

\* the characters of file and folder names, in code point order: sorted()
\* compares by it
CodePoints == <<"-", ".", "/", "0", "1", "2", "3", "4", "5", "6", "7", "8", "9", "A", "B", "C", "D", "E", "F", "G", "H", "I", "J", "K", "L", "M", "N", "O", "P", "Q", "R", "S", "T", "U", "V", "W", "X", "Y", "Z", "_", "a", "b", "c", "d", "e", "f", "g", "h", "i", "j", "k", "l", "m", "n", "o", "p", "q", "r", "s", "t", "u", "v", "w", "x", "y", "z">>
ord(c) == CHOOSE k \in 1..Len(CodePoints) : CodePoints[k] = c

\* a < b on str
RECURSIVE str_less(_, _)
str_less(a, b) ==
    IF b = <<>> THEN FALSE
    ELSE IF a = <<>> THEN TRUE
    ELSE IF a[1] = b[1] THEN str_less(Tail(a), Tail(b))
    ELSE ord(a[1]) < ord(b[1])

\* sorted(S) for a set of str
RECURSIVE sorted(_)
sorted(S) ==
    IF S = {} THEN <<>>
    ELSE LET m == CHOOSE x \in S : \A y \in S \ {x} : str_less(x, y)
         IN  <<m>> \o sorted(S \ {m})

\* ---------------------------------------------------------------- os.path

os_sep == "/"

\* os.path.basename(p)
basename(p) == Slice(p, rfind(p, os_sep) + 1, Len(p))

\* os.path.splitext(p): the extension starts at the last dot of the last
\* component, leading dots of that component not counted
splitext(p) ==
    LET sepIndex == rfind(p, os_sep)
        dotIndex == rfind(p, ".")
    IN  IF /\ dotIndex > sepIndex
           /\ \E k \in (sepIndex + 1)..(dotIndex - 1) : p[k + 1] # "."
        THEN <<Slice(p, 0, dotIndex), Slice(p, dotIndex, Len(p))>>
        ELSE <<p, <<>>>>

\* os.path.join(a, b)
path_join(a, b) ==
    IF b # <<>> /\ b[1] = os_sep THEN b
    ELSE IF a = <<>> \/ a[Len(a)] = os_sep THEN a \o b
    ELSE a \o <<os_sep>> \o b

\* the loop of os.path.normpath over the components
RECURSIVE norm_comps(_, _, _)
norm_comps(comps, new_comps, initial_slashes) ==
    IF comps = <<>> THEN new_comps
    ELSE LET comp == Head(comps) IN
         IF comp = <<>> \/ comp = <<".">>
         THEN norm_comps(Tail(comps), new_comps, initial_slashes)
         ELSE IF \/ comp # <<".", ".">>
                 \/ (~initial_slashes /\ new_comps = <<>>)
                 \/ (new_comps # <<>> /\ new_comps[Len(new_comps)] = <<".", ".">>)
         THEN norm_comps(Tail(comps), Append(new_comps, comp), initial_slashes)
         ELSE IF new_comps # <<>>
         THEN norm_comps(Tail(comps), SubSeq(new_comps, 1, Len(new_comps) - 1), initial_slashes)
         ELSE norm_comps(Tail(comps), new_comps, initial_slashes)

\* os.path.normpath(p), for a path that does not start with two slashes
normpath(p) ==
    LET initial_slashes == (p # <<>> /\ p[1] = os_sep)
        joined == str_join(<<os_sep>>, norm_comps(split(p, os_sep), <<>>, initial_slashes))
        res == IF initial_slashes THEN <<os_sep>> \o joined ELSE joined
    IN  IF res = <<>> THEN <<".">> ELSE res

\* os.path.abspath(p) in working directory wd
abspath(wd, p) ==
    normpath(IF p # <<>> /\ p[1] = os_sep THEN p ELSE path_join(wd, p))

\* ----------------------------------------------------- the exclusion lists

excluded_file_extensions ==
    <<<<".", "p", "n", "g">>, <<".", "j", "p", "g">>, <<".", "j", "p", "e", "g">>, <<".", "g", "i", "f">>, <<".", "z", "i", "p">>, <<".", "e", "x", "e">>, <<".", "d", "b">>>>

excluded_filenames == <<<<".", "D", "S", "_", "S", "t", "o", "r", "e">>, <<"D", "o", "c", "k", "e", "r", "f", "i", "l", "e">>, <<".", "g", "i", "t", "i", "g", "n", "o", "r", "e">>>>

excluded_folders ==
    <<<<".", "g", "i", "t">>, <<".", "g", "i", "t", "h", "u", "b">>, <<".", "i", "d", "e", "a">>, <<"n", "o", "d", "e", "_", "m", "o", "d", "u", "l", "e", "s">>, <<"d", "i", "s", "t">>, <<"v", "e", "n", "v">>, <<".", "v", "e", "n", "v">>>>

\* variant: the extension compared as written (no .lower())
should_exclude_file_case_sensitive(file_path) ==
    \/ InList(basename(file_path), excluded_filenames)
    \/ InList(splitext(file_path)[2], excluded_file_extensions)
\* lines 39-55
should_exclude_file(file_path) ==
    \/ InList(basename(file_path), excluded_filenames)
    \/ InList(lower(splitext(file_path)[2]), excluded_file_extensions)

\* lines 58-67
should_exclude_folder(folder_path) ==
    LET parts == split(folder_path, os_sep)
    IN  \E k \in 1..Len(excluded_folders) : InList(excluded_folders[k], parts)

\* ------------------------------------------------------- the file system

\* An entry of the tree below the codebase root: its path relative to the
\* root (a tuple of names), whether it is a directory, and a file's content.
FsFile(rel, content) == [rel |-> rel, isdir |-> FALSE, content |-> content]
FsDir(rel) == [rel |-> rel, isdir |-> TRUE, content |-> <<>>]

\* os.path.isdir of the entry at rel (the root is a directory)
isdir(tree, rel) == rel = <<>> \/ \E e \in tree : e.rel = rel /\ e.isdir

\* the names os.listdir gives for the directory at rel
listdir(tree, rel) ==
    {e.rel[Len(rel) + 1] : e \in {x \in tree : /\ Len(x.rel) = Len(rel) + 1
                                               /\ SubSeq(x.rel, 1, Len(rel)) = rel}}

\* f.read() of the file at rel
read_file(tree, rel) == (CHOOSE e \in tree : e.rel = rel /\ ~e.isdir).content

\* ------------------------------------------------------------- tree view

BranchLast == <<"^", "-", "-", " ">>
BranchMid == <<"+", "-", "-", " ">>
IndentLast == <<" ", " ", " ", " ">>
IndentMid == <<"|", " ", " ", " ">>

\* _build_tree_lines: the lines it appends, each with the entry it shows
RECURSIVE build_tree_lines(_, _, _, _, _, _)
RECURSIVE build_tree_children(_, _, _, _, _, _)
build_tree_lines(tree, current_path, rel, prefix, is_last, is_root) ==
    LET name == basename(rstrip(current_path, os_sep))
        line == IF is_root THEN name
                ELSE prefix \o (IF is_last THEN BranchLast ELSE BranchMid) \o name
        entry == [line |-> line, rel |-> rel, isdir |-> isdir(tree, rel)]
    IN  IF isdir(tree, rel) /\ ~should_exclude_folder(current_path)
        THEN LET items == sorted(listdir(tree, rel))
                 Visible(item) ==
                     LET full_path == path_join(current_path, item)
                     IN  IF isdir(tree, Append(rel, item))
                         THEN ~should_exclude_folder(full_path)
                         ELSE ~should_exclude_file(full_path)
                 visible_items == SelectSeq(items, Visible)
                 new_prefix == prefix \o (IF is_last THEN IndentLast ELSE IndentMid)
             IN  <<entry>> \o build_tree_children(tree, current_path, rel,
                                                  visible_items, 1, new_prefix)
        ELSE <<entry>>
build_tree_children(tree, current_path, rel, visible_items, i, new_prefix) ==
    IF i > Len(visible_items) THEN <<>>
    ELSE build_tree_lines(tree, path_join(current_path, visible_items[i]),
                          Append(rel, visible_items[i]), new_prefix,
                          i = Len(visible_items), FALSE)
         \o build_tree_children(tree, current_path, rel, visible_items, i + 1, new_prefix)

Lines(entries) == [k \in 1..Len(entries) |-> entries[k].line]

\* build_tree_output's return value for the entries build_tree_lines gave
build_tree_output(entries) == str_join(<<"\n">>, Lines(entries))

tree_header == <<"#", " ", "H", "e", "r", "e", " ", "i", "s", " ", "t", "h", "e", " ", "t", "r", "e", "e", " ", "o", "f", " ", "t", "h", "e", " ", "p", "r", "o", "j", "e", "c", "t", " ", "(", "e", "x", "c", "l", "u", "d", "e", "d", " ", "i", "t", "e", "m", "s", " ", "o", "m", "i", "t", "t", "e", "d", ")", ":", "\n", "\n">>

\* ------------------------------------------------------------- chunk_text

\* variant: the slice end one short, text[i:i + chunk_size - 1]
SliceAtDropsLast(t, i, size) == Slice(t, i, i + size - 1)
\* the slice taken at start i:  text[i:i + chunk_size]
SliceAt(t, i, size) == Slice(t, i, i + size)

\* [text[i:i + chunk_size] for i in range(0, len(text), chunk_size)]
chunk_text(t, size) ==
    LET starts == range(0, Len(t), size)
    IN  [k \in 1..Len(starts) |-> SliceAt(t, starts[k], size)]

\* --------------------------------------------------------- get_file_chunks

file_header(file_path) == <<"#", " ", "h", "e", "r", "e", " ", "i", "s", " ">> \o file_path \o <<"\n", "\n">>

get_file_chunks(file_path, content, B) ==
    LET subs == chunk_text(content, B)
    IN  [k \in 1..Len(subs) |-> file_header(file_path) \o subs[k]]

\* -------------------------------------------------------- aggregate_chunks

\* A group is the string that the code builds, together with the indices
\* (into the argument list) of the sub-chunks that were put into it.
Group(content, frags) == [text |-> content, frags |-> frags]

\* variant: the separator counted in the test
OverflowsCountingSep(current, sc, B) == Len(current) + Len(Sep) + Len(sc) > B
\* variant: only the incoming sub-chunk measured
OverflowsAlone(current, sc, B) == Len(sc) > B
\* the test of line 209: len(current_chunk_content) + len(sc) > context_length_for_chunks
Overflows(current, sc, B) == Len(current) + Len(sc) > B

AggInit == [current |-> <<>>, cur_frags |-> <<>>, grouped |-> <<>>]

\* variant: after a flush the new group starts empty (line 212 missing)
AggStepLosesSeed(st, sc, i, B) ==
    IF Overflows(st.current, sc, B)
    THEN [current |-> <<>>, cur_frags |-> <<>>,
          grouped |-> IF st.current # <<>>
                      THEN Append(st.grouped, Group(st.current, st.cur_frags))
                      ELSE st.grouped]
    ELSE IF st.current # <<>>
         THEN [current |-> st.current \o Sep \o sc,
               cur_frags |-> Append(st.cur_frags, i),
               grouped |-> st.grouped]
         ELSE [current |-> sc, cur_frags |-> <<i>>, grouped |-> st.grouped]
\* one iteration of the loop of lines 208-217 on sub-chunk sc, the i-th
AggStep(st, sc, i, B) ==
    IF Overflows(st.current, sc, B)
    THEN [current |-> sc, cur_frags |-> <<i>>,
          grouped |-> IF st.current # <<>>
                      THEN Append(st.grouped, Group(st.current, st.cur_frags))
                      ELSE st.grouped]
    ELSE IF st.current # <<>>
         THEN [current |-> st.current \o Sep \o sc,
               cur_frags |-> Append(st.cur_frags, i),
               grouped |-> st.grouped]
         ELSE [current |-> sc, cur_frags |-> <<i>>, grouped |-> st.grouped]

\* for sc in subchunks: ...
RECURSIVE AggLoop(_, _, _, _)
AggLoop(st, scs, i, B) ==
    IF i > Len(scs) THEN st
    ELSE AggLoop(AggStep(st, scs[i], i, B), scs, i + 1, B)

\* the whole function: the loop, then the flush of lines 218-219
aggregate_chunks(scs, B) ==
    LET st == AggLoop(AggInit, scs, 1, B)
    IN  IF st.current # <<>>
        THEN Append(st.grouped, Group(st.current, st.cur_frags))
        ELSE st.grouped

\* ------------------------------------------------------------------- main

\* variant: the test one short, len(sys.argv) < 2
UsageErrorOffByOne(n) == n < 2
\* the test of line 159: len(sys.argv) < 3
UsageError(n) == n < 3

\* the files of one directory, taken in the order os.walk lists them
RECURSIVE walk_files(_, _, _, _, _, _)
walk_files(tree, root, rel, files, i, acc) ==
    IF i > Len(files) THEN acc
    ELSE LET file_path == path_join(root, files[i])
             file_rel == Append(rel, files[i])
         IN  IF ~should_exclude_file(file_path)
             THEN LET file_chunks == get_file_chunks(file_path, read_file(tree, file_rel),
                                                     context_length_for_chunks)
                  IN  walk_files(tree, root, rel, files, i + 1,
                          [read |-> Append(acc.read, [path |-> file_path, rel |-> file_rel]),
                           chunks |-> acc.chunks \o file_chunks,
                           origin |-> acc.origin \o [k \in 1..Len(file_chunks) |-> file_rel]])
             ELSE walk_files(tree, root, rel, files, i + 1, acc)

\* a group of the final list: its text, the list it was aggregated from and
\* the indices of its sub-chunks in that list
Tagged(groups, src) ==
    [k \in 1..Len(groups) |-> [text |-> groups[k].text, src |-> src, frags |-> groups[k].frags]]

\* variant: one aggregation pass over the tree sub-chunks and the file
\* sub-chunks together
FinalChunksPooled(tree_scs, file_scs, B) ==
    LET pooled == aggregate_chunks(tree_scs \o file_scs, B)
    IN  [k \in 1..Len(pooled) |->
            [text |-> pooled[k].text,
             src |-> IF pooled[k].frags[1] <= Len(tree_scs) THEN "tree" ELSE "file",
             frags |-> pooled[k].frags]]
\* lines 223-228: tree_chunks + code_chunks
FinalChunks(tree_scs, file_scs, B) ==
    Tagged(aggregate_chunks(tree_scs, B), "tree")
        \o Tagged(aggregate_chunks(file_scs, B), "file")

\* f"chunk_{i}_of_{total_chunks}.txt"
output_filename(i, total_chunks) ==
    <<"c", "h", "u", "n", "k", "_">> \o str(i) \o <<"_", "o", "f", "_">> \o str(total_chunks) \o <<".", "t", "x", "t">>

\* the orders in which a directory listing can enumerate the names of S
Orderings(S) ==
    {o \in [1..Cardinality(S) -> S] : \A i, j \in 1..Cardinality(S) : o[i] = o[j] => i = j}

\* lines 159-164: the usage check, then sys.argv[1] and sys.argv[2]
CheckArgs ==
    /\ pc = "start"
    /\ IF UsageError(argv_len)
       THEN /\ stdout' = Append(stdout, [msg |-> "usage"])
            /\ exit_code' = 1
            /\ pc' = "exited"
       ELSE IF argv_len < 3
       THEN \* sys.argv[2] raises IndexError: a traceback, no usage message
            /\ stdout' = stdout
            /\ exit_code' = 1
            /\ pc' = "exited"
       ELSE /\ stdout' = stdout
            /\ exit_code' = exit_code
            /\ pc' = "mkdir"
    /\ UNCHANGED <<argv_len, cwd, codebase_root, root_segments, fs,
                   context_length_for_chunks, out_exists, out_created, tree_lines,
                   tree_subchunks, walk_stack, files_read, all_file_chunks,
                   chunk_files, final_chunks, written>>
    /\ UNCHANGED hvars

\* lines 167-168
MakeOutputDir ==
    /\ pc = "mkdir"
    /\ out_exists' = TRUE
    /\ out_created' = ~out_exists
    /\ pc' = "tree"
    /\ UNCHANGED <<argv_len, cwd, codebase_root, root_segments, fs,
                   context_length_for_chunks, stdout, exit_code, tree_lines,
                   tree_subchunks, walk_stack, files_read, all_file_chunks,
                   chunk_files, final_chunks, written>>
    /\ UNCHANGED hvars

\* lines 173-178, and the call of os.walk of line 184
BuildTree ==
    /\ pc = "tree"
    /\ LET entries == build_tree_lines(fs, abspath(cwd, codebase_root), <<>>, <<>>, TRUE, TRUE)
           tree_full_output == tree_header \o build_tree_output(entries)
       IN  /\ tree_lines' = entries
           /\ tree_subchunks' = chunk_text(tree_full_output, context_length_for_chunks)
    /\ walk_stack' = <<[root |-> codebase_root, rel |-> <<>>]>>
    /\ pc' = "walk"
    /\ UNCHANGED <<argv_len, cwd, codebase_root, root_segments, fs,
                   context_length_for_chunks, out_exists, out_created, stdout,
                   exit_code, files_read, all_file_chunks, chunk_files,
                   final_chunks, written>>
    /\ UNCHANGED hvars

\* lines 184-195: one (root, dirs, files) of os.walk, top-down
WalkDir ==
    /\ pc = "walk"
    /\ walk_stack # <<>>
    /\ LET top == Head(walk_stack)
           names == listdir(fs, top.rel)
           dirs == {n \in names : isdir(fs, Append(top.rel, n))}
           files == names \ dirs
       IN  \E dir_order \in Orderings(dirs), file_order \in Orderings(files) :
             LET acc == IF should_exclude_folder(top.root)
                        THEN [read |-> files_read, chunks |-> all_file_chunks,
                              origin |-> chunk_files]
                        ELSE walk_files(fs, top.root, top.rel, file_order, 1,
                                        [read |-> files_read, chunks |-> all_file_chunks,
                                         origin |-> chunk_files])
             IN  /\ files_read' = acc.read
                 /\ all_file_chunks' = acc.chunks
                 /\ chunk_files' = acc.origin
                 /\ walk_stack' =
                        [k \in 1..Len(dir_order) |->
                            [root |-> path_join(top.root, dir_order[k]),
                             rel |-> Append(top.rel, dir_order[k])]]
                        \o Tail(walk_stack)
    /\ UNCHANGED <<pc, argv_len, cwd, codebase_root, root_segments, fs,
                   context_length_for_chunks, out_exists, out_created, stdout,
                   exit_code, tree_lines, tree_subchunks, final_chunks, written>>
    /\ UNCHANGED hvars

\* lines 223-228
Aggregate ==
    /\ pc = "walk"
    /\ walk_stack = <<>>
    /\ final_chunks' = FinalChunks(tree_subchunks, all_file_chunks, context_length_for_chunks)
    /\ pc' = "write"
    /\ UNCHANGED <<argv_len, cwd, codebase_root, root_segments, fs,
                   context_length_for_chunks, out_exists, out_created, stdout,
                   exit_code, tree_lines, tree_subchunks, walk_stack, files_read,
                   all_file_chunks, chunk_files, written>>
    /\ UNCHANGED hvars

\* lines 233-240
WriteChunks ==
    /\ pc = "write"
    /\ LET total_chunks == Len(final_chunks)
       IN  /\ written' = [i \in 1..total_chunks |->
                             [name |-> output_filename(i, total_chunks),
                              text |-> final_chunks[i].text]]
           /\ stdout' = Append(stdout, [msg |-> "finished", total |-> total_chunks])
    /\ exit_code' = 0
    /\ pc' = "done"
    /\ UNCHANGED <<argv_len, cwd, codebase_root, root_segments, fs,
                   context_length_for_chunks, out_exists, out_created, tree_lines,
                   tree_subchunks, walk_stack, files_read, all_file_chunks,
                   chunk_files, final_chunks>>
    /\ UNCHANGED hvars

Next ==
    \/ CheckArgs
    \/ MakeOutputDir
    \/ BuildTree
    \/ WalkDir
    \/ Aggregate
    \/ WriteChunks

\* ------------------------------------------------------- main's inputs

\* how the tool is called: the working directory, sys.argv[1], and the
\* segments of sys.argv[1] as typed
Invocation(wd, arg, segments) == [cwd |-> wd, arg |-> arg, segments |-> segments]

Invocations ==
    { Invocation(<<"/", "w">>, <<"p">>, <<<<"p">>>>),
      Invocation(<<"/", "w", "/", "p">>, <<".">>, <<<<".">>>>),
      Invocation(<<"/", "w">>, <<"/", "w", "/", "p">>, <<<<>>, <<"w">>, <<"p">>>>),
      Invocation(<<"/", "w">>, <<"p", "/">>, <<<<"p">>, <<>>>>),
      Invocation(<<"/", "w", "/", "d", "i", "s", "t">>, <<"p">>, <<<<"p">>>>),
      Invocation(<<"/", "w">>, <<"d", "i", "s", "t", "/", ".", ".", "/", "p">>, <<<<"d", "i", "s", "t">>, <<".", ".">>, <<"p">>>>),
      Invocation(<<"/", "w">>, <<"/", "w", "/", "v", "e", "n", "v", "/", "p">>, <<<<>>, <<"w">>, <<"v", "e", "n", "v">>, <<"p">>>>) }

FileNames ==
    {<<"a", ".", "t", "x", "t">>, <<"b", ".", "p", "n", "g">>, <<"B", ".", "P", "N", "G">>, <<".", "D", "S", "_", "S", "t", "o", "r", "e">>, <<"m", "y", "n", "o", "d", "e", "_", "m", "o", "d", "u", "l", "e", "s", ".", "t", "x", "t">>, <<".", "p", "n", "g">>}

DirNames == {<<"s", "r", "c">>, <<"n", "o", "d", "e", "_", "m", "o", "d", "u", "l", "e", "s">>, <<"x", "n", "o", "d", "e", "_", "m", "o", "d", "u", "l", "e", "s">>, <<".", "g", "i", "t">>}

Content(c, n) == [k \in 1..n |-> c]

\* the content lengths tried with budget B: none, one character, a full
\* slice, one character more, two full slices
ContentLens(B) == {n \in {0, 1, B, B + 1, 2 * B} : n <= MaxContent}

HarnessUnused ==
    /\ hpc = "idle"
    /\ text = <<>>
    /\ chunk_size = 1
    /\ sub_chunks = <<>>
    /\ subchunks = <<>>
    /\ budget = DefaultContextLength
    /\ grouped = <<>>

MainStart ==
    /\ pc = "start"
    /\ out_created = FALSE
    /\ stdout = <<>>
    /\ exit_code = -1
    /\ tree_lines = <<>>
    /\ tree_subchunks = <<>>
    /\ walk_stack = <<>>
    /\ files_read = <<>>
    /\ all_file_chunks = <<>>
    /\ chunk_files = <<>>
    /\ final_chunks = <<>>
    /\ written = <<>>

\* runs over trees whose names meet the exclusion rules, called in every way
InitNames ==
    /\ argv_len = 3
    /\ context_length_for_chunks = DefaultContextLength
    /\ out_exists = FALSE
    /\ \E inv \in Invocations :
          /\ cwd = inv.cwd
          /\ codebase_root = inv.arg
          /\ root_segments = inv.segments
    /\ \E f1, f2 \in FileNames, d1, d2 \in DirNames :
          fs = { FsFile(<<f1>>, <<"x">>),
                 FsDir(<<d1>>),
                 FsFile(<<d1, f2>>, <<"y">>),
                 FsDir(<<d1, d2>>),
                 FsFile(<<d1, d2, <<"c", ".", "p", "y">>>>, <<"z">>) }

\* runs over file contents and budgets, on the tree p/{a, b, d/c}
InitContents ==
    /\ argv_len \in 1..MaxArgc
    /\ context_length_for_chunks \in {1, MidBudget, DefaultContextLength}
    /\ out_exists \in BOOLEAN
    /\ cwd = <<"/", "w">>
    /\ codebase_root = <<"p">>
    /\ root_segments = <<<<"p">>>>
    /\ \E la, lb, lc \in ContentLens(context_length_for_chunks) :
          fs = { FsFile(<<<<"a">>>>, Content("a", la)),
                 FsFile(<<<<"b">>>>, Content("b", lb)),
                 FsDir(<<<<"d">>>>),
                 FsFile(<<<<"d">>, <<"c">>>>, Content("c", lc)) }

Init ==
    /\ HarnessUnused
    /\ MainStart
    /\ (InitNames \/ InitContents)

Spec == Init /\ [][Next]_vars

MainUnused ==
    /\ pc = "unused"
    /\ argv_len = 0
    /\ cwd = <<>>
    /\ codebase_root = <<>>
    /\ root_segments = <<>>
    /\ fs = {}
    /\ context_length_for_chunks = DefaultContextLength
    /\ out_exists = FALSE
    /\ out_created = FALSE
    /\ stdout = <<>>
    /\ exit_code = -1
    /\ tree_lines = <<>>
    /\ tree_subchunks = <<>>
    /\ walk_stack = <<>>
    /\ files_read = <<>>
    /\ all_file_chunks = <<>>
    /\ chunk_files = <<>>
    /\ final_chunks = <<>>
    /\ written = <<>>

\* ---------------------------------------------- the harness of chunk_text

\* the texts of length n over {"a", "b"}
RECURSIVE Texts(_)
Texts(n) ==
    IF n = 0 THEN {<<>>}
    ELSE {<<c>> \o t : c \in {"a", "b"}, t \in Texts(n - 1)}

SliceInit ==
    /\ hpc = "call"
    /\ text \in UNION {Texts(n) : n \in 0..MaxTextLen}
    /\ chunk_size \in 1..MaxB
    /\ sub_chunks = <<>>
    /\ subchunks = <<>>
    /\ budget = DefaultContextLength
    /\ grouped = <<>>
    /\ MainUnused

CallChunkText ==
    /\ hpc = "call"
    /\ sub_chunks' = chunk_text(text, chunk_size)
    /\ hpc' = "returned"
    /\ UNCHANGED <<text, chunk_size, subchunks, budget, grouped>>
    /\ UNCHANGED mvars

SliceNext == CallChunkText

SpecSlice == SliceInit /\ [][SliceNext]_vars

\* ----------------------------------------- the harness of aggregate_chunks

Letters == <<"a", "b", "c", "d", "e", "f", "g">>

\* the i-th fragment: n copies of the i-th letter (no two fragments of an
\* argument list are equal, a fragment is never empty: every sub-chunk the
\* program builds starts with a header or is a non-empty slice)
Fragment(i, n) == [k \in 1..n |-> Letters[((i - 1) % Len(Letters)) + 1]]

FragmentLists ==
    UNION {{[i \in 1..n |-> Fragment(i, sizes[i])] : sizes \in [1..n -> 1..MaxFragLen]}
           : n \in 0..MaxFrags}

AggInitial ==
    /\ hpc = "call"
    /\ subchunks \in FragmentLists
    /\ budget \in 1..MaxB
    /\ grouped = <<>>
    /\ text = <<>>
    /\ chunk_size = 1
    /\ sub_chunks = <<>>
    /\ MainUnused

CallAggregateChunks ==
    /\ hpc = "call"
    /\ grouped' = aggregate_chunks(subchunks, budget)
    /\ hpc' = "returned"
    /\ UNCHANGED <<text, chunk_size, sub_chunks, subchunks, budget>>
    /\ UNCHANGED mvars

AggNext == CallAggregateChunks

SpecAgg == AggInitial /\ [][AggNext]_vars

\* ------------------------------------------------------ claims: chunk_text

RECURSIVE Concat(_)
Concat(ss) == IF ss = <<>> THEN <<>> ELSE Head(ss) \o Concat(Tail(ss))

CeilDiv(n, d) == (n + d - 1) \div d

\* C4: chunk_text returns the slices text[k*B : (k+1)*B], k = 0 .. ceil(len/B)-1,
\* in order: every slice but the last has length exactly B, the last has a
\* length in 1..B, the empty text gives no slice, and the slices put end to
\* end are the text.
C4_SlicesPartitionText ==
    hpc = "returned" =>
        LET n == Len(sub_chunks) IN
        /\ n = CeilDiv(Len(text), chunk_size)
        /\ (text = <<>> => sub_chunks = <<>>)
        /\ \A k \in 1..n :
             /\ sub_chunks[k] = [j \in 1..Len(sub_chunks[k]) |-> text[(k - 1) * chunk_size + j]]
             /\ k < n => Len(sub_chunks[k]) = chunk_size
             /\ k = n => Len(sub_chunks[k]) \in 1..chunk_size
        /\ Concat(sub_chunks) = text

\* a text of 5 characters cut by 2: two full slices and a remainder of 1
C4_Witness ==
    /\ hpc = "returned"
    /\ Len(text) = 5
    /\ chunk_size = 2
    /\ Len(sub_chunks) = 3

\* ------------------------------------------------ claims: aggregate_chunks

RECURSIVE SumLen(_, _)
SumLen(scs, frags) ==
    IF frags = <<>> THEN 0 ELSE Len(scs[Head(frags)]) + SumLen(scs, Tail(frags))

\* size(group) = sum(size(f)) + (count - 1) * size(separator)
GroupSize(scs, g) == SumLen(scs, g.frags) + (Len(g.frags) - 1) * Len(Sep)

\* the fragments of a group joined by the separator
RECURSIVE JoinFrags(_, _)
JoinFrags(scs, frags) ==
    IF frags = <<>> THEN <<>>
    ELSE IF Len(frags) = 1 THEN scs[Head(frags)]
    ELSE scs[Head(frags)] \o Sep \o JoinFrags(scs, Tail(frags))

RECURSIVE FlattenFrags(_)
FlattenFrags(gs) == IF gs = <<>> THEN <<>> ELSE Head(gs).frags \o FlattenFrags(Tail(gs))

\* C1: every emitted group has size(group) <= B, separators counted, except a
\* group that is a single fragment whose own size exceeds B.
C1_BudgetRespected ==
    hpc = "returned" =>
        \A k \in 1..Len(grouped) :
            \/ GroupSize(subchunks, grouped[k]) <= budget
            \/ /\ Len(grouped[k].frags) = 1
               /\ Len(subchunks[grouped[k].frags[1]]) > budget

\* C2: two fragments f1, f2 with size(f1) <= B: combined size with separator
\* exactly B gives one group holding both, combined size B + 1 gives two
\* groups, f1 then f2.
C2_BoundaryFill ==
    (hpc = "returned" /\ Len(subchunks) = 2 /\ Len(subchunks[1]) <= budget) =>
        LET combined == Len(subchunks[1]) + Len(Sep) + Len(subchunks[2]) IN
        /\ combined = budget =>
               /\ Len(grouped) = 1
               /\ grouped[1].text = subchunks[1] \o Sep \o subchunks[2]
        /\ combined = budget + 1 =>
               /\ Len(grouped) = 2
               /\ grouped[1].text = subchunks[1]
               /\ grouped[2].text = subchunks[2]

\* C3: the groups keep the order and never split a fragment: the fragments
\* of the groups, in order, are exactly the argument list, and each group's
\* text is its fragments, whole, joined by the separator.
C3_OrderPreserved ==
    hpc = "returned" =>
        /\ FlattenFrags(grouped) = [i \in 1..Len(subchunks) |-> i]
        /\ \A k \in 1..Len(grouped) :
               grouped[k].text = JoinFrags(subchunks, grouped[k].frags)

\* four fragments in three groups, one group holding two of them
C3_Witness ==
    /\ hpc = "returned"
    /\ Len(subchunks) = 4
    /\ Len(grouped) = 3
    /\ \E k \in 1..Len(grouped) : Len(grouped[k].frags) = 2

\* C10: no early flush: for consecutive groups g_i, g_{i+1},
\* len(g_i) + len(first fragment of g_{i+1}) > B; every group is non-empty;
\* there are no more groups than fragments (none for an empty list).
C10_NoEarlyFlush ==
    hpc = "returned" =>
        /\ \A k \in 1..(Len(grouped) - 1) :
               Len(grouped[k].text) + Len(subchunks[grouped[k + 1].frags[1]]) > budget
        /\ \A k \in 1..Len(grouped) :
               grouped[k].text # <<>> /\ grouped[k].frags # <<>>
        /\ Len(grouped) <= Len(subchunks)
        /\ (subchunks = <<>> => grouped = <<>>)

\* a flush happened after a group that holds two fragments
C10_Witness ==
    /\ hpc = "returned"
    /\ Len(grouped) >= 2
    /\ Len(grouped[1].frags) = 2

\* ------------------------------------------------------------ claims: main

Last(seq) == seq[Len(seq)]

FileEntries == {e \in fs : ~e.isdir}

\* the file was opened by get_file_chunks
WasRead(e) == \E k \in 1..Len(files_read) : files_read[k].rel = e.rel

\* the path get_file_chunks was given for the file
PathRead(e) == files_read[CHOOSE k \in 1..Len(files_read) : files_read[k].rel = e.rel].path

\* the indices in all_file_chunks of the sub-chunks cut from the file
ChunksOf(e) == {i \in 1..Len(all_file_chunks) : chunk_files[i] = e.rel}

\* some output group holds a sub-chunk cut from the file
Contributes(e) ==
    \E k \in 1..Len(final_chunks) :
        /\ final_chunks[k].src = "file"
        /\ \E j \in 1..Len(final_chunks[k].frags) :
               final_chunks[k].frags[j] \in ChunksOf(e)

\* the list a group was aggregated from
SourceList(g) == IF g.src = "tree" THEN tree_subchunks ELSE all_file_chunks

FragsIn(g, scs) == \A j \in 1..Len(g.frags) : g.frags[j] \in 1..Len(scs)

\* C5: a file of k*B characters (k >= 1) gives exactly k slices of length B,
\* each a header-prefixed fragment longer than B, and every fragment longer
\* than B is a group of its own, merged with neither neighbour.
C5_OversizedAlone ==
    pc = "done" =>
        LET B == context_length_for_chunks IN
        /\ \A e \in FileEntries :
             (WasRead(e) /\ Len(e.content) >= B /\ Len(e.content) % B = 0) =>
                LET k == Len(e.content) \div B
                    first == CHOOSE i \in ChunksOf(e) : \A j \in ChunksOf(e) : i <= j
                IN  /\ Cardinality(ChunksOf(e)) = k
                    /\ ChunksOf(e) = first..(first + k - 1)
                    /\ \A n \in 1..k :
                         /\ all_file_chunks[first + n - 1] =
                                file_header(PathRead(e))
                                    \o SubSeq(e.content, (n - 1) * B + 1, n * B)
                         /\ Len(all_file_chunks[first + n - 1]) > B
        /\ \A g \in 1..Len(final_chunks) :
             /\ FragsIn(final_chunks[g], SourceList(final_chunks[g]))
             /\ \A j \in 1..Len(final_chunks[g].frags) :
                  Len(SourceList(final_chunks[g])[final_chunks[g].frags[j]]) > B
                      => Len(final_chunks[g].frags) = 1

\* budget 40: a file of 80 characters was cut in two oversized fragments, the
\* one-character files around it gave fragments that fit, and two small
\* fragments were merged into one group
C5_Witness ==
    /\ pc = "done"
    /\ context_length_for_chunks = MidBudget
    /\ \E e \in FileEntries : WasRead(e) /\ Len(e.content) = 2 * MidBudget
    /\ \E i \in 1..(Len(all_file_chunks) - 1) :
          /\ Len(all_file_chunks[i]) > MidBudget
          /\ Len(all_file_chunks[i + 1]) < MidBudget
    /\ \E g \in 1..Len(final_chunks) :
          final_chunks[g].src = "file" /\ Len(final_chunks[g].frags) = 2

\* the extension of each file name of the trees, as the name shows it (a
\* name that is only a leading dot and letters has none)
ExtensionOf(name) ==
    CASE name = <<"a", ".", "t", "x", "t">> -> <<".", "t", "x", "t">>
      [] name = <<"b", ".", "p", "n", "g">> -> <<".", "p", "n", "g">>
      [] name = <<"B", ".", "P", "N", "G">> -> <<".", "P", "N", "G">>
      [] name = <<"m", "y", "n", "o", "d", "e", "_", "m", "o", "d", "u", "l", "e", "s", ".", "t", "x", "t">> -> <<".", "t", "x", "t">>
      [] name = <<"c", ".", "p", "y">> -> <<".", "p", "y">>
      [] OTHER -> <<>>

Elements(list) == {list[k] : k \in 1..Len(list)}

\* the three rules, on the entry itself
ByFileName(e) == Last(e.rel) \in Elements(excluded_filenames)
ByExtension(e) == lower(ExtensionOf(Last(e.rel))) \in Elements(excluded_file_extensions)
ContainingSegments(e) == root_segments \o SubSeq(e.rel, 1, Len(e.rel) - 1)
ByFolder(e) ==
    \E k \in 1..Len(ContainingSegments(e)) :
        ContainingSegments(e)[k] \in Elements(excluded_folders)

\* C6: a file whose name is an excluded file name, or whose extension, case
\* ignored, is an excluded extension, or whose containing path (the root as
\* given, then the folders down to the file) has an excluded folder name as
\* a segment, contributes no fragment to any output group; one rule is
\* enough; a file that meets no rule (mynode_modules.txt under no excluded
\* folder) is read and, not being empty, contributes.
C6_ExcludedNeverEmitted ==
    pc = "done" =>
        \A e \in FileEntries :
            IF ByFileName(e) \/ ByExtension(e) \/ ByFolder(e)
            THEN ~WasRead(e) /\ ChunksOf(e) = {} /\ ~Contributes(e)
            ELSE WasRead(e) /\ (e.content # <<>> => Contributes(e))

\* one run in which B.PNG is excluded by its extension alone, c.py by the
\* node_modules segment above it alone, and mynode_modules.txt is emitted
C6_Witness ==
    /\ pc = "done"
    /\ \E e \in FileEntries :
          Last(e.rel) = <<"B", ".", "P", "N", "G">> /\ ~ByFolder(e) /\ ~Contributes(e)
    /\ \E e \in FileEntries :
          Last(e.rel) = <<"c", ".", "p", "y">> /\ ByFolder(e) /\ ~Contributes(e)
    /\ \E e \in FileEntries :
          Last(e.rel) = <<"m", "y", "n", "o", "d", "e", "_", "m", "o", "d", "u", "l", "e", "s", ".", "t", "x", "t">> /\ Contributes(e)

\* the tree view shows the file
Listed(e) == \E k \in 1..Len(tree_lines) : tree_lines[k].rel = e.rel

\* C7: the tree view and the traversal agree: a file is listed in the tree
\* if and only if the traversal accepts it for reading, however the root is
\* given and whatever its ancestors are called.
C7_TreeMatchesWalk ==
    pc = "done" => \A e \in FileEntries : Listed(e) <=> WasRead(e)

\* C8: the final list is the tree groups, then the file groups; each group
\* is made of sub-chunks of one list only; the two lists are each used up
\* in order; group i of N is written to chunk_<i>_of_<N>.txt, one file per
\* group.
C8_TreeGroupsThenFileGroups ==
    pc = "done" =>
        LET N == Len(final_chunks) IN
        /\ \E t \in 0..N :
             /\ \A k \in 1..N : final_chunks[k].src = (IF k <= t THEN "tree" ELSE "file")
             /\ \A k \in 1..N :
                  /\ FragsIn(final_chunks[k], SourceList(final_chunks[k]))
                  /\ final_chunks[k].text =
                         JoinFrags(SourceList(final_chunks[k]), final_chunks[k].frags)
             /\ FlattenFrags(SubSeq(final_chunks, 1, t))
                    = [i \in 1..Len(tree_subchunks) |-> i]
             /\ FlattenFrags(SubSeq(final_chunks, t + 1, N))
                    = [i \in 1..Len(all_file_chunks) |-> i]
        /\ Len(written) = N
        /\ \A i \in 1..N :
             /\ written[i].name = <<"c", "h", "u", "n", "k", "_">> \o str(i) \o <<"_", "o", "f", "_">> \o str(N) \o <<".", "t", "x", "t">>
             /\ written[i].text = final_chunks[i].text
        /\ \A i, j \in 1..N : written[i].name = written[j].name => i = j

\* the default budget: one tree group, then one file group of three files
C8_Witness ==
    /\ pc = "done"
    /\ context_length_for_chunks = DefaultContextLength
    /\ Len(final_chunks) = 2
    /\ final_chunks[1].src = "tree"
    /\ final_chunks[2].src = "file"
    /\ Len(final_chunks[2].frags) = 3
    /\ Len(written) = 2

\* C9: with fewer than 2 positional arguments main prints the usage message
\* and exits with code 1 at once: the output directory is not created, no
\* file is read, no chunk is written.
C9_UsageExit ==
    argv_len < 3 =>
        /\ pc \in {"start", "exited"}
        /\ ~out_created
        /\ files_read = <<>>
        /\ written = <<>>
        /\ pc = "exited" => (exit_code = 1 /\ stdout = <<[msg |-> "usage"]>>)

\* called with one positional argument, main has exited
C9_Witness ==
    /\ argv_len = 2
    /\ pc = "exited"
    /\ exit_code = 1

====
